---- MODULE Spec2Model ----
(***************************************************************************)
(* Model of dashboard/tabs/tab3_satisfaction_levels.py: one rendering pass *)
(* of show_satisfaction_levels_tab(df) over a survey table, the            *)
(* aggregations it computes (cross-tab, reason ranking, group means,       *)
(* district scores), and the join of the district scores onto the          *)
(* boundary features of distrito_all_s.geojson.                            *)
(*                                                                         *)
(* Strings that the code transforms character by character (district      *)
(* names) are sequences of Unicode code points; categorical values that    *)
(* the code only compares are TLA+ strings.  A missing cell (NaN) of a     *)
(* categorical column is the string NaN, a missing district name is the    *)
(* one-element sequence NoName.  A mean is the pair (sum, n) of the        *)
(* values it averages; n = 0 is the float NaN.                             *)
(***************************************************************************)
EXTENDS Integers, Sequences, FiniteSets, TLC

VARIABLES
  df,                          \* the input table: a sequence of survey rows
  boundary_file,               \* whether distrito_all_s.geojson opens and parses
  reason_columns,              \* the reason_* columns of df, in column order
  added_columns,               \* columns the pass has added to df itself
  outcome,                     \* how the latest pass ended
  selected_satisfaction,       \* the multiselect value of the latest pass
  satisfaction_pivot,          \* housing situation x satisfaction cross-tab
  rates,                       \* overall satisfied / dissatisfied shares
  reason_df,                   \* ranked reason table
  top_reasons,                 \* reason_df.head(3)["Reason"]
  burden_extremes,             \* renters' highest / lowest burden rows
  district_satisfaction,       \* per-district summary, sorted by score
  district_extremes,           \* highest_district / lowest_district
  district_satisfaction_dict,  \* boundary key -> score
  district_count_dict,         \* boundary key -> count
  fill,                        \* feature -> fillColor of style_function
  popup,                       \* feature -> colour of create_popup_html
  calls,                       \* calls of show_satisfaction_levels_tab so far
  loads,                       \* times the boundary file was opened and parsed
  x,                           \* a district name given to the normalizer
  nx,                          \* normalize(x)
  nnx                          \* normalize(normalize(x))

vars ==
  <<df, boundary_file, reason_columns, added_columns, outcome,
    selected_satisfaction, satisfaction_pivot, rates, reason_df, top_reasons, burden_extremes,
    district_satisfaction, district_extremes, district_satisfaction_dict,
    district_count_dict, fill, popup, calls, loads, x, nx, nnx>>

passVars ==
  <<outcome, selected_satisfaction, satisfaction_pivot, rates, reason_df,
    top_reasons, burden_extremes, district_satisfaction, district_extremes,
    district_satisfaction_dict, district_count_dict, fill, popup, calls,
    loads>>

normVars == <<x, nx, nnx>>

-----------------------------------------------------------------------------
(* Bounds of the model.                                                    *)

\* rows of the input table
MaxRows == 3
\* calls of show_satisfaction_levels_tab in one process
MaxCalls == 2
\* characters of a district name given to the normalizer on its own
MaxLen == 2
\* reason_* columns of the input table
MaxReasonCols == 3
\* rows of the table when the reason columns are varied
ReasonRows == 2

-----------------------------------------------------------------------------
(* Generic helpers.                                                        *)

NaN == "NaN"
NoName == <<-1>>
None == "None"

Range(s) == {s[i] : i \in DOMAIN s}

RECURSIVE Flatten(_)
Flatten(ss) == IF ss = <<>> THEN <<>> ELSE Head(ss) \o Flatten(Tail(ss))

\* the injective sequences (orderings) of the finite set S
Orderings(S) ==
  {p \in [1..Cardinality(S) -> S] : \A i, j \in DOMAIN p : i # j => p[i] # p[j]}

-----------------------------------------------------------------------------
(* District-name normalization, lines 450-456:                             *)
(*   .str.lower().str.normalize("NFKD")                                    *)
(*   .str.encode("ascii", errors="ignore").str.decode("utf-8")             *)

\* str.lower on one code point: ASCII A-Z and the Latin-1 capitals have a
\* lowercase 32 above; every other code point the model uses (lowercase
\* letters, space, combining marks, the trade mark and numero signs, the euro
\* sign) has no lowercase mapping and is left alone.
LowerChar(c) ==
  IF (c >= 65 /\ c <= 90) \/ (c >= 192 /\ c <= 222 /\ c # 215)
  THEN c + 32
  ELSE c

Lower(s) == [i \in DOMAIN s |-> LowerChar(s[i])]

\* unicodedata.normalize("NFKD", .) on one code point: the Unicode
\* compatibility decomposition of the Latin-1 letters of Portuguese, of the
\* trade mark sign U+2122 and of the numero sign U+2116; code points without a
\* decomposition (ASCII, combining marks, the euro sign) stay.
NFKDChar(c) ==
  CASE c = 192 -> <<65, 768>>
    [] c = 193 -> <<65, 769>>
    [] c = 194 -> <<65, 770>>
    [] c = 195 -> <<65, 771>>
    [] c = 199 -> <<67, 807>>
    [] c = 201 -> <<69, 769>>
    [] c = 202 -> <<69, 770>>
    [] c = 205 -> <<73, 769>>
    [] c = 211 -> <<79, 769>>
    [] c = 212 -> <<79, 770>>
    [] c = 213 -> <<79, 771>>
    [] c = 218 -> <<85, 769>>
    [] c = 224 -> <<97, 768>>
    [] c = 225 -> <<97, 769>>
    [] c = 226 -> <<97, 770>>
    [] c = 227 -> <<97, 771>>
    [] c = 231 -> <<99, 807>>
    [] c = 233 -> <<101, 769>>
    [] c = 234 -> <<101, 770>>
    [] c = 237 -> <<105, 769>>
    [] c = 243 -> <<111, 769>>
    [] c = 244 -> <<111, 770>>
    [] c = 245 -> <<111, 771>>
    [] c = 250 -> <<117, 769>>
    [] c = 8470 -> <<78, 111>>
    [] c = 8482 -> <<84, 77>>
    [] OTHER -> <<c>>

NFKD(s) == Flatten([i \in DOMAIN s |-> NFKDChar(s[i])])

\* encode("ascii", errors="ignore") then decode: code points above 127 go
AsciiIgnore(s) == SelectSeq(s, LAMBDA c : c < 128)

\* a missing name stays missing through the .str accessors
distrito_normalized(s) ==
  IF s = NoName THEN NoName ELSE AsciiIgnore(NFKD(Lower(s)))

-----------------------------------------------------------------------------
(* The alias dictionary, lines 459-480, in declaration order.              *)

district_mapping ==
   <<
      \* "viana do castelo": "viana do castelo"
      [key |-> <<118, 105, 97, 110, 97, 32, 100, 111, 32, 99, 97, 115, 116, 101, 108, 111>>,
       value |-> <<118, 105, 97, 110, 97, 32, 100, 111, 32, 99, 97, 115, 116, 101, 108, 111>>],
      \* "braga": "braga"
      [key |-> <<98, 114, 97, 103, 97>>,
       value |-> <<98, 114, 97, 103, 97>>],
      \* "vila real": "vila real"
      [key |-> <<118, 105, 108, 97, 32, 114, 101, 97, 108>>,
       value |-> <<118, 105, 108, 97, 32, 114, 101, 97, 108>>],
      \* "braganca": "braganca"
      [key |-> <<98, 114, 97, 103, 97, 110, 99, 97>>,
       value |-> <<98, 114, 97, 103, 97, 110, 99, 97>>],
      \* "aveiro": "aveiro"
      [key |-> <<97, 118, 101, 105, 114, 111>>,
       value |-> <<97, 118, 101, 105, 114, 111>>],
      \* "coimbra": "coimbra"
      [key |-> <<99, 111, 105, 109, 98, 114, 97>>,
       value |-> <<99, 111, 105, 109, 98, 114, 97>>],
      \* "leiria": "leiria"
      [key |-> <<108, 101, 105, 114, 105, 97>>,
       value |-> <<108, 101, 105, 114, 105, 97>>],
      \* "lisboa": "lisboa"
      [key |-> <<108, 105, 115, 98, 111, 97>>,
       value |-> <<108, 105, 115, 98, 111, 97>>],
      \* "porto": "porto"
      [key |-> <<112, 111, 114, 116, 111>>,
       value |-> <<112, 111, 114, 116, 111>>],
      \* "setubal": "setubal"
      [key |-> <<115, 101, 116, 117, 98, 97, 108>>,
       value |-> <<115, 101, 116, 117, 98, 97, 108>>],
      \* "viseu": "viseu"
      [key |-> <<118, 105, 115, 101, 117>>,
       value |-> <<118, 105, 115, 101, 117>>],
      \* "guarda": "guarda"
      [key |-> <<103, 117, 97, 114, 100, 97>>,
       value |-> <<103, 117, 97, 114, 100, 97>>],
      \* "santarem": "santarem"
      [key |-> <<115, 97, 110, 116, 97, 114, 101, 109>>,
       value |-> <<115, 97, 110, 116, 97, 114, 101, 109>>],
      \* "beja": "beja"
      [key |-> <<98, 101, 106, 97>>,
       value |-> <<98, 101, 106, 97>>],
      \* "castelo branco": "castelo branco"
      [key |-> <<99, 97, 115, 116, 101, 108, 111, 32, 98, 114, 97, 110, 99, 111>>,
       value |-> <<99, 97, 115, 116, 101, 108, 111, 32, 98, 114, 97, 110, 99, 111>>],
      \* "evora": "evora"
      [key |-> <<101, 118, 111, 114, 97>>,
       value |-> <<101, 118, 111, 114, 97>>],
      \* "faro": "faro"
      [key |-> <<102, 97, 114, 111>>,
       value |-> <<102, 97, 114, 111>>],
      \* "portalegre": "portalegre"
      [key |-> <<112, 111, 114, 116, 97, 108, 101, 103, 114, 101>>,
       value |-> <<112, 111, 114, 116, 97, 108, 101, 103, 114, 101>>],
      \* "ilha da madeira": "madeira"
      [key |-> <<105, 108, 104, 97, 32, 100, 97, 32, 109, 97, 100, 101, 105, 114, 97>>,
       value |-> <<109, 97, 100, 101, 105, 114, 97>>],
      \* "acores": "acores"
      [key |-> <<97, 99, 111, 114, 101, 115>>,
       value |-> <<97, 99, 111, 114, 101, 115>>]
   >>

\* the lookup with the normalized name itself as the fallback of a miss
distrito_geojson_fallback(normalized) ==
  IF \E i \in DOMAIN district_mapping : district_mapping[i].key = normalized
  THEN district_mapping[CHOOSE i \in DOMAIN district_mapping :
                           district_mapping[i].key = normalized].value
  ELSE normalized

\* Series.map(district_mapping): the value of the entry whose key is the
\* normalized name, and NaN (NoName) when no entry has that key
distrito_geojson(normalized) ==
  IF \E i \in DOMAIN district_mapping : district_mapping[i].key = normalized
  THEN district_mapping[CHOOSE i \in DOMAIN district_mapping :
                           district_mapping[i].key = normalized].value
  ELSE NoName

-----------------------------------------------------------------------------
(* Fixed lookup tables of the module.                                      *)

\* satisfaction_scores, lines 12-18 (ordinal 1..5)
satisfaction_scores ==
  [l \in {"Very Satisfied", "Satisfied", "Neutral", "Dissatisfied",
          "Very Dissatisfied"} |->
     CASE l = "Very Satisfied" -> 5
       [] l = "Satisfied" -> 4
       [] l = "Neutral" -> 3
       [] l = "Dissatisfied" -> 2
       [] l = "Very Dissatisfied" -> 1]

\* satisfaction_weights, lines 328-334 (signed -2..+2)
satisfaction_weights ==
  [l \in {"Very Satisfied", "Satisfied", "Neutral", "Dissatisfied",
          "Very Dissatisfied"} |->
     CASE l = "Very Satisfied" -> 2
       [] l = "Satisfied" -> 1
       [] l = "Neutral" -> 0
       [] l = "Dissatisfied" -> -1
       [] l = "Very Dissatisfied" -> -2]

\* the column list with its middle label left out
ordered_labels_short ==
  <<"Very Satisfied", "Satisfied", "Dissatisfied", "Very Dissatisfied">>

\* the caller's column order of the cross-tab, lines 49-55
ordered_labels ==
  <<"Very Satisfied", "Satisfied", "Neutral", "Dissatisfied",
    "Very Dissatisfied">>

\* reason_mapping, lines 144-155, in declaration order
reason_mapping ==
  << [col |-> "reason_pago-demasiado", label |-> "Paying too much"],
     [col |-> "reason_falta-espaco", label |-> "Lack of space"],
     [col |-> "reason_habitacao-mau-estado", label |-> "Poor housing condition"],
     [col |-> "reason_vivo-longe", label |-> "Living far from work/amenities"],
     [col |-> "reason_quero-independecia", label |-> "Want independence"],
     [col |-> "reason_dificuldades-financeiras", label |-> "Financial difficulties"],
     [col |-> "reason_financeiramente-dependente", label |-> "Financially dependent"],
     [col |-> "reason_vivo-longe-de-transportes", label |-> "Far from transportation"],
     [col |-> "reason_vivo-zona-insegura", label |-> "Living in unsafe area"],
     [col |-> "reason_partilho-casa-com-desconhecidos", label |-> "Sharing with strangers"] >>

-----------------------------------------------------------------------------
(* Means.  A mean is [sum, n]: the sum and the number of the values        *)
(* averaged; n = 0 is NaN, and every comparison with NaN is false.         *)

NaNMean == [sum |-> 0, n |-> 0]
IsNaN(m) == m.n = 0
MeanLess(a, b) == a.n > 0 /\ b.n > 0 /\ a.sum * b.n < b.sum * a.n
MeanEq(a, b) == a.n > 0 /\ b.n > 0 /\ a.sum * b.n = b.sum * a.n
\* score < h/2 and score >= h/2 as Python floats compare: false on NaN
LessThanHalves(m, h) == m.n > 0 /\ 2 * m.sum < h * m.n
AtLeastHalves(m, h) == m.n > 0 /\ 2 * m.sum >= h * m.n

RECURSIVE SumSeq(_)
SumSeq(s) == IF s = <<>> THEN 0 ELSE Head(s) + SumSeq(Tail(s))

\* the mapped column with the missing values filled with 0
MapValues_fillna(rows, table) ==
  [i \in DOMAIN rows |->
     IF rows[i].satisfaction_level \in DOMAIN table
     THEN table[rows[i].satisfaction_level]
     ELSE 0]

\* Series.map(table): the rows whose label has an entry carry its value, the
\* others carry NaN, which mean and count both skip
MapValues(rows, table) ==
  LET known == SelectSeq(rows, LAMBDA r : r.satisfaction_level \in DOMAIN table)
  IN  [i \in DOMAIN known |-> table[known[i].satisfaction_level]]

\* .mean() of the mapped column over rows
MeanOf(rows, table) ==
  LET v == MapValues(rows, table) IN [sum |-> SumSeq(v), n |-> Len(v)]

\* .count() of the mapped column over rows
CountOf(rows, table) == Len(MapValues(rows, table))

-----------------------------------------------------------------------------
(* pandas primitives the pass uses.                                        *)

RECURSIVE SumOver(_, _)
\* the sum of f over the finite set S of its arguments
SumOver(f, S) ==
  IF S = {} THEN 0
  ELSE LET a == CHOOSE a \in S : TRUE IN f[a] + SumOver(f, S \ {a})

RECURSIVE SeqLess(_, _)
\* Python's str < str: lexicographic on code points
SeqLess(a, b) ==
  IF b = <<>> THEN FALSE
  ELSE IF a = <<>> THEN TRUE
  ELSE IF Head(a) # Head(b) THEN Head(a) < Head(b)
  ELSE SeqLess(Tail(a), Tail(b))

\* the elements of a finite set of names in ascending order (groupby sorts
\* its keys)
SortedNames(S) ==
  CHOOSE p \in Orderings(S) : \A i, j \in DOMAIN p : i < j => SeqLess(p[i], p[j])

\* DataFrame.sort_values(col, ascending=False) with the default kind
\* "quicksort", which is not stable: every arrangement of the rows that is
\* descending in the key is a possible result.  Less(a, b) is key(a) < key(b).
sort_values(rows, Less(_, _)) ==
  {p \in Orderings(Range(rows)) :
     \A i, j \in DOMAIN p : i < j => ~Less(p[i], p[j])}

\* Series.idxmax() / idxmin() over a column of means, NaN skipped: the first
\* position holding the largest (smallest) defined value
idxmax(col) ==
  CHOOSE i \in DOMAIN col :
    /\ ~IsNaN(col[i])
    /\ \A j \in DOMAIN col : ~MeanLess(col[i], col[j])
    /\ \A j \in DOMAIN col : j < i => (IsNaN(col[j]) \/ MeanLess(col[j], col[i]))

idxmin(col) ==
  CHOOSE i \in DOMAIN col :
    /\ ~IsNaN(col[i])
    /\ \A j \in DOMAIN col : ~MeanLess(col[j], col[i])
    /\ \A j \in DOMAIN col : j < i => (IsNaN(col[j]) \/ MeanLess(col[i], col[j]))

\* idxmax / idxmin of an empty or all-NaN column gives no usable label: the
\* .loc lookup on it (or idxmax itself) raises
idx_raises(col) == \A i \in DOMAIN col : IsNaN(col[i])

-----------------------------------------------------------------------------
(* Cross-tab of housing situation against satisfaction, lines 44-59.       *)

\* pd.crosstab: rows with a missing cell in either column are dropped; the
\* index and the columns are the values that remain
crosstab(rows) ==
  LET kept == SelectSeq(rows, LAMBDA r : r.housing_situation # NaN
                                         /\ r.satisfaction_level # NaN)
      index == {kept[i].housing_situation : i \in DOMAIN kept}
      columns == {kept[i].satisfaction_level : i \in DOMAIN kept}
  IN  [index |-> index,
       columns |-> columns,
       count |-> [c \in index \X columns |->
                    Cardinality({i \in DOMAIN kept :
                                   /\ kept[i].housing_situation = c[1]
                                   /\ kept[i].satisfaction_level = c[2]})]]

\* the listed columns of the cross-tab left in the order pd.crosstab gives its
\* columns (ascending labels) instead of the order of the list
ordered_cols_as_crosstab(pivot) ==
  SelectSeq(<<"Dissatisfied", "Neutral", "Satisfied", "Very Dissatisfied",
              "Very Satisfied">>,
            LAMBDA col : col \in pivot.columns /\ col \in Range(ordered_labels))

\* ordered_cols = [col for col in ordered_cols if col in pivot.columns]
ordered_cols(pivot) == SelectSeq(ordered_labels, LAMBDA col : col \in pivot.columns)

\* satisfaction_pivot[ordered_cols]; the columns become a sequence
pivot_restricted(rows) ==
  LET pivot == crosstab(rows)
      cols == ordered_cols(pivot)
  IN  [index |-> pivot.index,
       columns |-> cols,
       count |-> [c \in pivot.index \X Range(cols) |-> pivot.count[c]]]

\* satisfied_pct and dissatisfied_pct, lines 84-124: value_counts drops the
\* missing labels; 0 / 0 on numpy integers is NaN, not an exception
overall_rates(rows) ==
  LET total == Cardinality({i \in DOMAIN rows : rows[i].satisfaction_level # NaN})
      n(S) == Cardinality({i \in DOMAIN rows : rows[i].satisfaction_level \in S})
  IN  [satisfied_pct |->
         IF total = 0 THEN NaNMean
         ELSE [sum |-> 100 * n({"Very Satisfied", "Satisfied"}), n |-> total],
       dissatisfied_pct |->
         IF total = 0 THEN NaNMean
         ELSE [sum |-> 100 * n({"Dissatisfied", "Very Dissatisfied"}), n |-> total]]

-----------------------------------------------------------------------------
(* Reason ranking, lines 143-180.                                          *)

\* reason_counts: one entry per reason_* column that reason_mapping knows,
\* inserted in the order of the table's columns
reason_counts(cols) ==
  LET known == SelectSeq(cols, LAMBDA c :
                 \E i \in DOMAIN reason_mapping : reason_mapping[i].col = c.name)
      label(name) == reason_mapping[CHOOSE i \in DOMAIN reason_mapping :
                                      reason_mapping[i].col = name].label
  IN  [i \in DOMAIN known |->
         [Reason |-> label(known[i].name),
          Count |-> Cardinality({k \in DOMAIN known[i].values :
                                   known[i].values[k]})]]

\* the possible reason_df tables: reason_counts sorted by Count, descending
reason_tables(cols) ==
  sort_values(reason_counts(cols), LAMBDA a, b : a.Count < b.Count)

\* reason_df.head(3)["Reason"].tolist()
head3(table) ==
  [i \in 1..(IF Len(table) < 3 THEN Len(table) ELSE 3) |-> table[i].Reason]

-----------------------------------------------------------------------------
(* Filter by satisfaction level, lines 198-207.                            *)

\* df["satisfaction_level"].unique(): the multiselect's options, NaN included
options(rows) == {rows[i].satisfaction_level : i \in DOMAIN rows}

\* a non-empty selection gives a filtered copy; an empty one gives df itself
filtered_df(rows, selected) ==
  IF selected # {}
  THEN SelectSeq(rows, LAMBDA r : r.satisfaction_level \in selected)
  ELSE rows

\* filtered_df is df (the same object) exactly when nothing is selected
is_alias(selected) == selected = {}

-----------------------------------------------------------------------------
(* Rent burden of renters, lines 251-306.                                  *)

\* the rent-burden values of the model in Python's string order
rent_burden_sorted == <<"31-50% (Moderate)", ">80% (Very High)">>

renters_df(filtered) ==
  SelectSeq(filtered, LAMBDA r : r.housing_situation = "Renting")

\* renters_df.groupby("rent_burden")["satisfaction_score"].mean(): one row per
\* rent-burden value present (a missing rent burden forms no group)
avg_satisfaction_by_burden(renters) ==
  LET present == SelectSeq(rent_burden_sorted, LAMBDA b :
                   \E i \in DOMAIN renters : renters[i].rent_burden = b)
  IN  [k \in DOMAIN present |->
         [rent_burden |-> present[k],
          satisfaction_score |->
            MeanOf(SelectSeq(renters, LAMBDA r : r.rent_burden = present[k]),
                   satisfaction_scores)]]

score_column(table) == [i \in DOMAIN table |-> table[i].satisfaction_score]

NoBurden == [rent_burden |-> NaN, satisfaction_score |-> NaNMean]

\* highest_satisfaction and lowest_satisfaction, lines 301-306
burden_rows(renters) ==
  LET avg == avg_satisfaction_by_burden(renters)
  IN  [highest |-> avg[idxmax(score_column(avg))],
       lowest |-> avg[idxmin(score_column(avg))]]

\* lines 252 and 301-306: the renters branch runs on a non-empty renters_df
\* and raises when no rent-burden group has a defined mean
burden_raises(renters) ==
  /\ renters # <<>>
  /\ idx_raises(score_column(avg_satisfaction_by_burden(renters)))

-----------------------------------------------------------------------------
(* District summary, lines 337-349 and 381-385.                            *)

\* groupby("distrito")["satisfaction_numeric"].agg(["mean", "count"]): one row
\* per district name present, in ascending name order; rows with a missing
\* district form no group
district_groups(filtered) ==
  LET names == SortedNames({filtered[i].distrito : i \in DOMAIN filtered}
                           \ {NoName})
  IN  [k \in DOMAIN names |->
         LET rows == SelectSeq(filtered, LAMBDA r : r.distrito = names[k])
         IN  [distrito |-> names[k],
              satisfaction_score |-> MeanOf(rows, satisfaction_weights),
              count |-> CountOf(rows, satisfaction_weights)]]

\* sort_values("satisfaction_score", ascending=False): the rows with a defined
\* score in descending order, then the NaN rows in their former order
sorted_by_score(groups) ==
  LET scored == SelectSeq(groups, LAMBDA g : ~IsNaN(g.satisfaction_score))
      nans == SelectSeq(groups, LAMBDA g : IsNaN(g.satisfaction_score))
  IN  {p \o nans :
         p \in sort_values(scored, LAMBDA a, b :
                 MeanLess(a.satisfaction_score, b.satisfaction_score))}

\* .iloc[0] / .iloc[-1] raise IndexError on an empty summary, line 384
district_raises(groups) == groups = <<>>

highest_lowest(sorted) ==
  [highest_district |-> sorted[1].distrito,
   lowest_district |-> sorted[Len(sorted)].distrito]

-----------------------------------------------------------------------------
(* Geo join, lines 450-493.                                                *)

\* the boundary key of a summary row: normalize, then map through the aliases
geojson_key(name) == distrito_geojson(distrito_normalized(name))

\* set_index("distrito_geojson")[column].to_dict(): one entry per key, and
\* for a key that several rows carry, the value of the last such row; the
\* rows without an alias all sit under the NaN key (NoName)
to_dict(sorted, Value(_)) ==
  LET keys == {geojson_key(sorted[i].distrito) : i \in DOMAIN sorted}
      last(k) == CHOOSE i \in DOMAIN sorted :
                   /\ geojson_key(sorted[i].distrito) = k
                   /\ \A j \in DOMAIN sorted :
                        geojson_key(sorted[j].distrito) = k => j <= i
  IN  [k \in keys |-> Value(sorted[last(k)])]

score_dict(sorted) == to_dict(sorted, LAMBDA g : g.satisfaction_score)
count_dict(sorted) == to_dict(sorted, LAMBDA g : g.count)

-----------------------------------------------------------------------------
(* Map styling, lines 404-421 and 519-544.                                 *)

\* the "Distrito" property of the features of distrito_all_s.geojson that the
\* model carries: Lisboa, Porto, Faro
boundary_features ==
  << <<76, 105, 115, 98, 111, 97>>,
     <<80, 111, 114, 116, 111>>,
     <<70, 97, 114, 111>> >>

\* style_function(feature)["fillColor"]: a KeyError is the no-data grey
style_function(feature, dict) ==
  LET district_name == Lower(feature)
  IN  IF district_name \in DOMAIN dict
      THEN LET score == dict[district_name]
           IN  IF LessThanHalves(score, -3) THEN "#d73027"
               ELSE IF LessThanHalves(score, -1) THEN "#fc8d59"
               ELSE IF LessThanHalves(score, 1) THEN "#fee08b"
               ELSE IF LessThanHalves(score, 3) THEN "#91cf60"
               ELSE "#1a9850"
      ELSE "#f7f7f7"

\* create_popup_html(district_name, score, count): description and colour
create_popup_html(score) ==
  IF AtLeastHalves(score, 3)
  THEN [description |-> "Very High Satisfaction", color |-> "#1a9850"]
  ELSE IF AtLeastHalves(score, 1)
  THEN [description |-> "High Satisfaction", color |-> "#91cf60"]
  ELSE IF AtLeastHalves(score, -1)
  THEN [description |-> "Neutral Satisfaction", color |-> "#fee08b"]
  ELSE IF AtLeastHalves(score, -3)
  THEN [description |-> "Low Satisfaction", color |-> "#fc8d59"]
  ELSE [description |-> "Very Low Satisfaction", color |-> "#d73027"]

NoPopup == [description |-> None, color |-> None]

\* lines 569-604: a marker with a popup for each feature whose key is in the
\* score dictionary
popups(dict) ==
  [f \in DOMAIN boundary_features |->
     LET district_name == Lower(boundary_features[f])
     IN  IF district_name \in DOMAIN dict
         THEN create_popup_html(dict[district_name])
         ELSE NoPopup]

fills(dict) ==
  [f \in DOMAIN boundary_features |-> style_function(boundary_features[f], dict)]

-----------------------------------------------------------------------------
(* One rendering pass: show_satisfaction_levels_tab(df), lines 21-674.     *)
(* The chart and map calls (plotly, folium, streamlit) only display what   *)
(* the pass has computed and are not modelled; the income chart and the    *)
(* income correlation (lines 212-235) read columns the model does not      *)
(* carry.  The inputs of a pass beside df are the multiselect value and    *)
(* the boundary file the working directory holds.                          *)

EmptyPivot == [index |-> {}, columns |-> <<>>, count |-> <<>>]
NoBurdenRows == [highest |-> NoBurden, lowest |-> NoBurden]
NoDistricts == [highest_district |-> NoName, lowest_district |-> NoName]

\* lines 228 and 337 assign a new column to filtered_df; when filtered_df is
\* df itself the column lands in the caller's table
columns_after(selected, reached_district) ==
  IF is_alias(selected)
  THEN added_columns \cup {"satisfaction_score"}
         \cup (IF reached_district THEN {"satisfaction_numeric"} ELSE {})
  ELSE added_columns

show_satisfaction_levels_tab ==
  /\ outcome = "idle"
  /\ \E selected \in SUBSET options(df) :
    LET filtered == filtered_df(df, selected)
        renters == renters_df(filtered)
        groups == district_groups(filtered)
    IN
    \E table \in reason_tables(reason_columns), sorted \in sorted_by_score(groups) :
      /\ satisfaction_pivot' = pivot_restricted(df)
      /\ rates' = overall_rates(df)
      /\ reason_df' = table
      /\ top_reasons' = head3(table)
      /\ selected_satisfaction' = selected
      /\ IF burden_raises(renters)
         THEN \* lines 301-306 raise; nothing below runs
              /\ outcome' = "raised_rent_burden"
              /\ added_columns' = columns_after(selected, FALSE)
              /\ burden_extremes' = NoBurdenRows
              /\ district_satisfaction' = <<>>
              /\ district_extremes' = NoDistricts
              /\ district_satisfaction_dict' = <<>>
              /\ district_count_dict' = <<>>
              /\ fill' = <<>>
              /\ popup' = <<>>
         ELSE
           /\ added_columns' = columns_after(selected, TRUE)
           /\ burden_extremes' =
                IF renters # <<>> THEN burden_rows(renters) ELSE NoBurdenRows
           /\ IF district_raises(groups)
              THEN \* line 384 raises IndexError, outside the try block
                   /\ outcome' = "raised_district"
                   /\ district_satisfaction' = <<>>
                   /\ district_extremes' = NoDistricts
                   /\ district_satisfaction_dict' = <<>>
                   /\ district_count_dict' = <<>>
                   /\ fill' = <<>>
                   /\ popup' = <<>>
              ELSE
                /\ district_satisfaction' = sorted
                /\ district_extremes' = highest_lowest(sorted)
                /\ IF boundary_file # "readable"
                   THEN \* lines 445-446 raise inside the try: lines 670-674
                        /\ outcome' = "map_error"
                        /\ district_satisfaction_dict' = <<>>
                        /\ district_count_dict' = <<>>
                        /\ fill' = <<>>
                        /\ popup' = <<>>
                   ELSE /\ outcome' = "map_shown"
                        /\ district_satisfaction_dict' = score_dict(sorted)
                        /\ district_count_dict' = count_dict(sorted)
                        /\ fill' = fills(score_dict(sorted))
                        /\ popup' = popups(score_dict(sorted))
      \* lines 445-446 run in every call that reaches them
      /\ loads' = IF outcome' = "map_shown" THEN loads + 1 ELSE loads
      /\ calls' = calls + 1
      /\ UNCHANGED <<df, boundary_file, reason_columns, x, nx, nnx>>

-----------------------------------------------------------------------------
(* Input tables.                                                           *)

Row(h, b, l, d) ==
  [housing_situation |-> h, rent_burden |-> b, satisfaction_level |-> l,
   distrito |-> d]

Lisboa == <<76, 105, 115, 98, 111, 97>>
LISBOA == <<76, 73, 83, 66, 79, 65>>
Porto == <<80, 111, 114, 116, 111>>
\* "Madeira" normalizes to "madeira", which is no key of district_mapping
Madeira == <<77, 97, 100, 101, 105, 114, 97>>
\* "Lisbon" has no alias either
Lisbon == <<76, 105, 115, 98, 111, 110>>

\* the satisfaction_level cells of the model: the five labels, a label the
\* lookup tables do not know, and a missing cell
LabelCells ==
  <<"Very Satisfied", "Satisfied", "Neutral", "Dissatisfied",
    "Very Dissatisfied", "Unknown", NaN>>

\* a known label of either sign and an unknown one
FewLabelCells == <<"Very Satisfied", "Dissatisfied", "Unknown">>

\* the rows Row(h, b, l, d) with l from labels and <<h, b, d>> from cells
Rows(labels, cells) ==
  [k \in 0..(Len(labels) * Len(cells) - 1) |->
     Row(cells[(k \div Len(labels)) + 1][1], cells[(k \div Len(labels)) + 1][2],
         labels[(k % Len(labels)) + 1], cells[(k \div Len(labels)) + 1][3])]

\* owners in two districts: every label cell in one, a known label of either
\* sign and an unknown one in the other
ScoreRows ==
  [k \in 0..(Len(LabelCells) + Len(FewLabelCells) - 1) |->
     IF k < Len(LabelCells)
     THEN Row("Owning", NaN, LabelCells[k + 1], Lisboa)
     ELSE Row("Owning", NaN, FewLabelCells[k - Len(LabelCells) + 1], Porto)]

\* owners under two spellings of one district, two districts without an
\* alias and a missing district
NameRows ==
  Rows(FewLabelCells,
       << <<"Owning", NaN, Lisboa>>, <<"Owning", NaN, LISBOA>>,
          <<"Owning", NaN, Madeira>>, <<"Owning", NaN, Lisbon>>,
          <<"Owning", NaN, NoName>> >>)

\* renters with either rent burden or none, and a missing housing situation
HousingRows ==
  Rows(FewLabelCells,
       << <<"Renting", "31-50% (Moderate)", Lisboa>>,
          <<"Renting", ">80% (Very High)", Lisboa>>,
          <<"Renting", NaN, Lisboa>>,
          <<NaN, NaN, Lisboa>> >>)

\* the rows of the worked example: two renters in Lisboa, very satisfied and
\* dissatisfied, and a very dissatisfied owner in Porto
ExampleRows ==
  << Row("Renting", "31-50% (Moderate)", "Very Satisfied", Lisboa),
     Row("Renting", "31-50% (Moderate)", "Dissatisfied", Lisboa),
     Row("Owning", NaN, "Very Dissatisfied", Porto) >>

\* the tables of at most MaxRows rows drawn from list, up to the order of the
\* rows (no aggregation of the pass reads the row order)
Tables(list) ==
  UNION {
    {[i \in 1..n |-> list[ids[i]]] :
       ids \in {f \in [1..n -> DOMAIN list] :
                  \A i \in 1..n : i < n => f[i] <= f[i + 1]}} :
    n \in 0..MaxRows}

InitPass ==
  /\ added_columns = {}
  /\ outcome = "idle"
  /\ selected_satisfaction = {}
  /\ satisfaction_pivot = EmptyPivot
  /\ rates = [satisfied_pct |-> NaNMean, dissatisfied_pct |-> NaNMean]
  /\ reason_df = <<>>
  /\ top_reasons = <<>>
  /\ burden_extremes = NoBurdenRows
  /\ district_satisfaction = <<>>
  /\ district_extremes = NoDistricts
  /\ district_satisfaction_dict = <<>>
  /\ district_count_dict = <<>>
  /\ fill = <<>>
  /\ popup = <<>>
  /\ calls = 0
  /\ loads = 0

InitNoNorm == x = NoName /\ nx = NoName /\ nnx = NoName

Init ==
  /\ df \in Tables(ScoreRows) \cup Tables(NameRows) \cup Tables(HousingRows)
            \cup Tables(ExampleRows)
  /\ boundary_file \in {"readable", "unavailable"}
  /\ reason_columns = <<>>
  /\ InitPass
  /\ InitNoNorm

Next == show_satisfaction_levels_tab

Spec == Init /\ [][Next]_vars

-----------------------------------------------------------------------------
(* Several rendering passes in one process: the application calls          *)
(* show_satisfaction_levels_tab(df) again on every rerun of the script,    *)
(* with the same table; a call that raised does not end the process.       *)

\* the next call of show_satisfaction_levels_tab begins
rerun ==
  /\ outcome # "idle"
  /\ calls < MaxCalls
  /\ outcome' = "idle"
  /\ UNCHANGED <<df, boundary_file, reason_columns, added_columns,
                 selected_satisfaction, satisfaction_pivot, rates, reason_df,
                 top_reasons, burden_extremes, district_satisfaction,
                 district_extremes, district_satisfaction_dict,
                 district_count_dict, fill, popup, calls, loads, x, nx, nnx>>

InitPasses ==
  /\ df \in Tables(ExampleRows)
  /\ boundary_file \in {"readable", "unavailable"}
  /\ reason_columns = <<>>
  /\ InitPass
  /\ InitNoNorm

NextPasses == show_satisfaction_levels_tab \/ rerun

SpecPasses == InitPasses /\ [][NextPasses]_vars

-----------------------------------------------------------------------------
(* The pass over tables that differ in their reason_* columns.             *)

\* reason_* columns of the model: three that reason_mapping declares (its
\* first, second and fourth entry) and one it does not know
ReasonColumnNames ==
  {"reason_pago-demasiado", "reason_falta-espaco", "reason_vivo-longe",
   "reason_outro"}

\* the indicator columns of ReasonRows cells, up to the order of the rows (the
\* pass reads only the sum of a reason column)
Indicators ==
  {v \in [1..ReasonRows -> BOOLEAN] :
     \A i \in 1..ReasonRows : i < ReasonRows /\ v[i + 1] => v[i]}

\* the arrangements of k distinct reason columns, each with its indicators
ReasonColumns(k) ==
  {[i \in 1..k |-> [name |-> names[i], values |-> values[i]]] :
     names \in {f \in [1..k -> ReasonColumnNames] :
                  \A i, j \in 1..k : i # j => f[i] # f[j]},
     values \in [1..k -> Indicators]}

InitReason ==
  /\ df = [i \in 1..ReasonRows |-> Row("Owning", NaN, "Dissatisfied", Lisboa)]
  /\ boundary_file = "readable"
  /\ \E k \in 0..MaxReasonCols : reason_columns \in ReasonColumns(k)
  /\ InitPass
  /\ InitNoNorm

SpecReason == InitReason /\ [][Next]_vars

-----------------------------------------------------------------------------
(* The normalizer on its own, applied once and twice to a name.            *)

\* code points of the names: A, a, space, C with cedilla, E with acute,
\* c with cedilla, the euro sign, the trade mark sign
NameChars == {65, 97, 32, 199, 201, 231, 8364, 8482}

Names == UNION {[1..n -> NameChars] : n \in 0..MaxLen}

InitNorm ==
  /\ df = <<>>
  /\ boundary_file = "readable"
  /\ reason_columns = <<>>
  /\ InitPass
  /\ x \in Names
  /\ nx = NoName
  /\ nnx = NoName

\* district_satisfaction["distrito"] normalized, lines 450-456
Normalize ==
  /\ x # NoName
  /\ nx = NoName
  /\ nx' = distrito_normalized(x)
  /\ UNCHANGED <<df, boundary_file, reason_columns, added_columns, passVars, x, nnx>>

\* the same transform applied to its own result
NormalizeAgain ==
  /\ nx # NoName
  /\ nnx = NoName
  /\ nnx' = distrito_normalized(nx)
  /\ UNCHANGED <<df, boundary_file, reason_columns, added_columns, passVars, x, nx>>

NextNorm == Normalize \/ NormalizeAgain

SpecNorm == InitNorm /\ [][NextNorm]_vars

-----------------------------------------------------------------------------
(* Properties of a pass.                                                   *)

KnownLabels ==
  {"Very Satisfied", "Satisfied", "Neutral", "Dissatisfied", "Very Dissatisfied"}

\* the pass ran to its end: the map or the map's error message was shown
Completed == outcome \in {"map_shown", "map_error"}
Raised == outcome \in {"raised_rent_burden", "raised_district"}

\* the rows the latest pass aggregated below the filter
Filtered == filtered_df(df, selected_satisfaction)

\* the number of rows of a sequence that satisfy P
CountRows(rows, P(_)) == Cardinality({i \in DOMAIN rows : P(rows[i])})

\* the boundary key the f-th feature is looked up under
FeatureKey(f) == Lower(boundary_features[f])

\* the score is exactly h/2
OnThreshold(score, h) == score.n > 0 /\ 2 * score.sum = h * score.n

\* the colour of the bucket whose lower end is h/2
BucketFrom(h) ==
  CASE h = -3 -> "#fc8d59"
    [] h = -1 -> "#fee08b"
    [] h = 1 -> "#91cf60"
    [] h = 3 -> "#1a9850"

\* C1: for every feature whose key has a score in the join, the popup's bucket
\* colour is the fill colour of the map, and a score exactly on a threshold
\* (-1.5, -0.5, 0.5, 1.5) is in the higher bucket in both.
C1_PopupColourIsFillColour ==
  outcome = "map_shown" =>
    \A f \in DOMAIN boundary_features :
      FeatureKey(f) \in DOMAIN district_satisfaction_dict =>
        /\ popup[f].color = fill[f]
        /\ \A h \in {-3, -1, 1, 3} :
             OnThreshold(district_satisfaction_dict[FeatureKey(f)], h) =>
               fill[f] = BucketFrom(h)

\* a district of the summary has at least one scored row and maps to the key
ScoredDistrictUnder(key) ==
  \E i \in DOMAIN district_satisfaction :
    /\ district_satisfaction[i].count > 0
    /\ geojson_key(district_satisfaction[i].distrito) = key

\* C2: a feature to which no district with at least one scored row maps is
\* filled with the no-data grey, never with one of the five score colours.
C2_NoScoreIsNoData ==
  outcome = "map_shown" =>
    \A f \in DOMAIN boundary_features :
      ~ScoredDistrictUnder(FeatureKey(f)) => fill[f] = "#f7f7f7"

PivotTotal == SumOver(satisfaction_pivot.count, DOMAIN satisfaction_pivot.count)

\* C3 as stated: the counts of the restricted cross-tab add up to the number
\* of rows whose housing situation and satisfaction level are both present.
C3_TotalIsRowsWithBothPresent ==
  outcome # "idle" =>
    PivotTotal = CountRows(df, LAMBDA r : r.housing_situation # NaN
                                          /\ r.satisfaction_level # NaN)

\* C3 amended: the counts of the restricted cross-tab add up to the number of
\* rows whose housing situation is present and whose satisfaction level is one
\* of the five listed labels.
C3_TotalIsRowsWithListedLabel ==
  outcome # "idle" =>
    PivotTotal = CountRows(df, LAMBDA r : r.housing_situation # NaN
                                          /\ r.satisfaction_level \in KnownLabels)

\* a pass over a table that holds a counted row and a row whose label is
\* outside the list
C3_Witness ==
  /\ Completed
  /\ PivotTotal > 0
  /\ \E i \in DOMAIN df : /\ df[i].housing_situation # NaN
                          /\ df[i].satisfaction_level = "Unknown"

\* the position of a reason label in reason_mapping
DeclIndex(label) ==
  CHOOSE i \in DOMAIN reason_mapping : reason_mapping[i].label = label

\* C4: reason_df is sorted by count, descending, reasons with equal counts
\* stand in the declaration order of reason_mapping whatever the order of the
\* table's columns, and the top-3 list is its first three reasons.
C4_TiesInDeclarationOrder ==
  outcome # "idle" =>
    /\ \A i, j \in DOMAIN reason_df :
         i < j =>
           \/ reason_df[i].Count > reason_df[j].Count
           \/ /\ reason_df[i].Count = reason_df[j].Count
              /\ DeclIndex(reason_df[i].Reason) < DeclIndex(reason_df[j].Reason)
    /\ top_reasons = head3(reason_df)

\* C5: after a call that ran to its end the input table has the columns it
\* had before, for every selection of satisfaction levels, the empty one
\* included.
C5_InputNotMutated == Completed => added_columns = {}

\* the filtered table is empty, or its renters or one of its districts have
\* no row with a defined score
NothingToScore ==
  \/ Filtered = <<>>
  \/ /\ renters_df(Filtered) # <<>>
     /\ \A i \in DOMAIN Filtered :
          Filtered[i].housing_situation = "Renting" =>
            Filtered[i].satisfaction_level \notin KnownLabels
  \/ \E i \in DOMAIN Filtered :
       /\ Filtered[i].distrito # NoName
       /\ \A j \in DOMAIN Filtered :
            Filtered[j].distrito = Filtered[i].distrito =>
              Filtered[j].satisfaction_level \notin KnownLabels

\* C6: on an empty table, and when a non-empty group has no row with a
\* defined score, the pass runs to its end without raising.
C6_EmptyInputCompletes ==
  (outcome # "idle" /\ NothingToScore) => Completed

\* C7: in the district summary the count of a district is the number of its
\* filtered rows whose label is one of the five known labels, the mean is the
\* sum of their signed weights over that number, and a district whose count
\* is 0 has an undefined mean.
C7_DistrictCountAndMean ==
  Completed =>
    \A i \in DOMAIN district_satisfaction :
      LET g == district_satisfaction[i]
          n(l) == CountRows(Filtered, LAMBDA r : r.distrito = g.distrito
                                                 /\ r.satisfaction_level = l)
      IN  /\ g.count = CountRows(Filtered,
                         LAMBDA r : r.distrito = g.distrito
                                    /\ r.satisfaction_level \in KnownLabels)
          /\ g.satisfaction_score.n = g.count
          /\ g.satisfaction_score.sum =
               2 * n("Very Satisfied") + n("Satisfied")
               - n("Dissatisfied") - 2 * n("Very Dissatisfied")
          /\ g.count = 0 => IsNaN(g.satisfaction_score)

\* a summary with a district of count 0, and a district with a scored row
\* beside a row of unknown label
C7_Witness ==
  /\ Completed
  /\ \E i \in DOMAIN district_satisfaction : district_satisfaction[i].count = 0
  /\ \E i \in DOMAIN district_satisfaction :
       /\ district_satisfaction[i].count > 0
       /\ \E j \in DOMAIN Filtered :
            /\ Filtered[j].distrito = district_satisfaction[i].distrito
            /\ Filtered[j].satisfaction_level \notin KnownLabels

\* C8: normalizing a normalized name changes nothing.
C8_NormalizeIdempotent == nnx # NoName => nnx = nx

\* the district name has an entry in district_mapping
HasAlias(name) ==
  \E i \in DOMAIN district_mapping :
    district_mapping[i].key = distrito_normalized(name)

MatchedOnly == SelectSeq(district_satisfaction, LAMBDA g : HasAlias(g.distrito))

\* C9: districts without an alias raise nothing (with a readable boundary
\* file the map is shown), every key of the join other than the NaN key is
\* the alias of a district of the summary, and the score and count under it
\* are what the join of the matched districts alone gives.
C9_UnmatchedDropped ==
  /\ (boundary_file = "readable" /\ district_satisfaction # <<>>)
       => outcome = "map_shown"
  /\ outcome = "map_shown" =>
       /\ DOMAIN district_count_dict = DOMAIN district_satisfaction_dict
       /\ \A k \in DOMAIN district_satisfaction_dict :
            k # NoName =>
              /\ \E i \in DOMAIN district_satisfaction, a \in DOMAIN district_mapping :
                   /\ district_mapping[a].key =
                        distrito_normalized(district_satisfaction[i].distrito)
                   /\ district_mapping[a].value = k
              /\ \E sorted \in sorted_by_score(MatchedOnly) :
                   /\ district_satisfaction_dict[k] = score_dict(sorted)[k]
                   /\ district_count_dict[k] = count_dict(sorted)[k]

\* a shown map whose summary holds two districts without an alias and one
\* with an alias
C9_Witness ==
  /\ outcome = "map_shown"
  /\ \E i, j \in DOMAIN district_satisfaction :
       /\ i # j
       /\ ~HasAlias(district_satisfaction[i].distrito)
       /\ ~HasAlias(district_satisfaction[j].distrito)
  /\ \E i \in DOMAIN district_satisfaction :
       /\ HasAlias(district_satisfaction[i].distrito)
       /\ district_satisfaction[i].count > 0

\* C10: when the boundary file cannot be opened or parsed the pass ends in
\* the error outcome with no join and no map, and the error outcome is
\* reached only then.
C10_LoadFailureIsTheErrorOutcome ==
  /\ (outcome # "idle" /\ boundary_file = "unavailable") =>
       /\ outcome = "map_error"
       /\ district_satisfaction_dict = <<>>
       /\ fill = <<>>
  /\ outcome = "map_error" => boundary_file = "unavailable"

\* the colour of the bucket of a defined score by the fixed thresholds:
\* below -1.5 very low, [-1.5, -0.5) low, [-0.5, 0.5) neutral, [0.5, 1.5)
\* high, 1.5 and above very high
BucketColour(score) ==
  CASE LessThanHalves(score, -3) -> "#d73027"
    [] AtLeastHalves(score, -3) /\ LessThanHalves(score, -1) -> "#fc8d59"
    [] AtLeastHalves(score, -1) /\ LessThanHalves(score, 1) -> "#fee08b"
    [] AtLeastHalves(score, 1) /\ LessThanHalves(score, 3) -> "#91cf60"
    [] AtLeastHalves(score, 3) -> "#1a9850"

\* the sum of the signed weights of the scored rows of a district
WeightSum(rows, name) ==
  LET n(l) == CountRows(rows, LAMBDA r : r.distrito = name
                                         /\ r.satisfaction_level = l)
  IN  2 * n("Very Satisfied") + n("Satisfied")
      - n("Dissatisfied") - 2 * n("Very Dissatisfied")

\* the number of scored rows of a district
ScoredCount(rows, name) ==
  CountRows(rows, LAMBDA r : r.distrito = name
                             /\ r.satisfaction_level \in KnownLabels)

\* C11: for every district with a scored row, the district score is the sum
\* of the signed weights of its scored rows over their number, and the
\* feature of the district is filled with the bucket that the fixed
\* thresholds give that score.
C11_ScoreAndBucketOfEveryDistrict ==
  outcome = "map_shown" =>
    \A i \in DOMAIN district_satisfaction :
      LET g == district_satisfaction[i]
      IN  g.count > 0 =>
            /\ g.satisfaction_score =
                 [sum |-> WeightSum(Filtered, g.distrito),
                  n |-> ScoredCount(Filtered, g.distrito)]
            /\ \A f \in DOMAIN boundary_features :
                 FeatureKey(f) = geojson_key(g.distrito) =>
                   fill[f] = BucketColour(g.satisfaction_score)

\* the fixed list of satisfaction labels, most satisfied first
ListedLabels ==
  <<"Very Satisfied", "Satisfied", "Neutral", "Dissatisfied",
    "Very Dissatisfied">>

\* C12 as stated: the columns of the cross-tab are the labels of the fixed
\* list that occur in the table's satisfaction_level column, in the order of
\* the list.
C12_ColumnsAreListedLabelsOfTable ==
  outcome # "idle" =>
    satisfaction_pivot.columns =
      SelectSeq(ListedLabels, LAMBDA l :
        \E i \in DOMAIN df : df[i].satisfaction_level = l)

\* C12 amended: the columns of the cross-tab are the labels of the fixed list
\* that occur in a row whose housing situation is present, in the order of
\* the list; no label outside the list is a column, and every column holds a
\* positive count (a listed label without such a row is omitted, not
\* zero-filled).
C12_ColumnsAreListedLabelsOfCountedRows ==
  outcome # "idle" =>
    /\ satisfaction_pivot.columns =
         SelectSeq(ListedLabels, LAMBDA l :
           \E i \in DOMAIN df : /\ df[i].satisfaction_level = l
                                 /\ df[i].housing_situation # NaN)
    /\ \A k \in DOMAIN satisfaction_pivot.columns :
         \E h \in satisfaction_pivot.index :
           satisfaction_pivot.count[<<h, satisfaction_pivot.columns[k]>>] > 0

\* a pass whose cross-tab has a column, over a table with a listed label that
\* occurs only beside a missing housing situation and with a counted row
\* whose label is outside the list
C12_Witness ==
  /\ Completed
  /\ satisfaction_pivot.columns # <<>>
  /\ \E i \in DOMAIN df :
       /\ df[i].housing_situation = NaN
       /\ df[i].satisfaction_level \in KnownLabels
       /\ df[i].satisfaction_level \notin Range(satisfaction_pivot.columns)
  /\ \E i \in DOMAIN df :
       /\ df[i].housing_situation # NaN
       /\ df[i].satisfaction_level = "Unknown"

\* C13: over any sequence of calls in one process the boundary file is
\* loaded at most once.
C13_BoundaryLoadedAtMostOnce == loads <= 1

\* the scored filtered rows whose district normalizes and aliases to key k
ScoredRowsUnder(k) ==
  SelectSeq(Filtered, LAMBDA r : /\ r.distrito # NoName
                                 /\ geojson_key(r.distrito) = k
                                 /\ r.satisfaction_level \in KnownLabels)

\* C14: for every boundary key of the joined mappings, the stored count is
\* the number of scored filtered rows whose district normalizes and aliases
\* to the key, and the stored score is the mean of the signed weights of all
\* those rows, also when several spellings of a district share the key.
C14_JoinCountsEveryRowOfTheKey ==
  outcome = "map_shown" =>
    \A k \in DOMAIN district_satisfaction_dict :
      k # NoName =>
        /\ district_count_dict[k] = Len(ScoredRowsUnder(k))
        /\ IF ScoredRowsUnder(k) = <<>>
           THEN IsNaN(district_satisfaction_dict[k])
           ELSE MeanEq(district_satisfaction_dict[k],
                       MeanOf(ScoredRowsUnder(k), satisfaction_weights))

\* the summary row of a district name
SummaryOf(name) ==
  district_satisfaction[CHOOSE i \in DOMAIN district_satisfaction :
                          district_satisfaction[i].distrito = name]

\* C15: when some district has a defined mean, the district reported as
\* highest has a defined mean that no district's defined mean exceeds, and
\* the district reported as lowest has a defined mean that is below no
\* district's defined mean; a district without a scored row is neither.
C15_ExtremesHaveDefinedMeans ==
  (Completed /\ \E i \in DOMAIN district_satisfaction :
                  ~IsNaN(district_satisfaction[i].satisfaction_score)) =>
    LET hi == SummaryOf(district_extremes.highest_district).satisfaction_score
        lo == SummaryOf(district_extremes.lowest_district).satisfaction_score
    IN  /\ ~IsNaN(hi)
        /\ ~IsNaN(lo)
        /\ \A i \in DOMAIN district_satisfaction :
             LET m == district_satisfaction[i].satisfaction_score
             IN  ~IsNaN(m) => (~MeanLess(hi, m) /\ ~MeanLess(m, lo))

====
